---- MODULE Spec2Model ----
(***************************************************************************)
(* Model of integrations/custom-teams.py: one invocation reads a Wazuh     *)
(* alert file, renders an Adaptive Card and POSTs it to a webhook.         *)
(*                                                                         *)
(* Python strings that the program processes (URLs, alert texts) are       *)
(* sequences of one-character strings; fixed schema tokens of the card     *)
(* ("Container", "showToggle", ...) are TLA+ strings.                      *)
(***************************************************************************)
EXTENDS Integers, Sequences, FiniteSets, TLC

(***************************************************************************)
(* Bounds of the model.                                                    *)
(***************************************************************************)
\* rule.level sweeps -1 .. MaxLevel
MaxLevel == 15
\* webhook URLs sweep all concatenations of at most MaxUrlParts parts
MaxUrlParts == 4

(***************************************************************************)
(* Option values and results of operations that may raise.                 *)
(***************************************************************************)
None == << >>
Some(x) == << x >>

Ok(v) == [ok |-> TRUE, val |-> v]
Raise(type, msg) == [ok |-> FALSE, exc |-> [type |-> type, msg |-> msg]]

Range(s) == { s[i] : i \in 1..Len(s) }

(***************************************************************************)
(* html.unescape (custom-teams.py line 160), library code modelled on the  *)
(* characters the URLs of the model are made of.  The alphabet has no '#', *)
(* so only the named alternative of the character-reference pattern        *)
(*   &(#[0-9]+;?|#[xX][0-9a-fA-F]+;?|[^\t\n\f <&#;]{1,32};?)               *)
(* can match.                                                              *)
(***************************************************************************)
\* html.entities.html5 restricted to names over the letters a, h, m, p
Html5Names == { <<"a","m","p">>, <<"a","m","p",";">>, <<"a","p",";">>,
                <<"m","a","p",";">>, <<"m","p",";">>, <<"p","m",";">> }

Html5(name) ==
    CASE name = <<"a","m","p">>     -> <<"&">>
      [] name = <<"a","m","p",";">> -> <<"&">>
      [] name = <<"a","p",";">>     -> <<"U+2248">>
      [] name = <<"m","a","p",";">> -> <<"U+21A6">>
      [] name = <<"m","p",";">>     -> <<"U+2213">>
      [] name = <<"p","m",";">>     -> <<"U+00B1">>

\* [^\t\n\f <&#;]
NameChar(c) == c \notin {"\t", "\n", "\f", " ", "<", "&", "#", ";"}

\* number of leading name characters of s, at most 32 (greedy {1,32})
RECURSIVE NameRun(_, _)
NameRun(s, n) ==
    IF n < 32 /\ n < Len(s) /\ NameChar(s[n + 1]) THEN NameRun(s, n + 1) ELSE n

\* group(1) of the pattern matched right after an '&'; << >> when no match
CharrefMatch(s) ==
    LET n == NameRun(s, 0) IN
    IF n = 0 THEN << >>
    ELSE IF n < Len(s) /\ s[n + 1] = ";" THEN SubSeq(s, 1, n + 1)
    ELSE SubSeq(s, 1, n)

\* the unknown-name case returning the name without the '&' it followed
ReplaceCharrefDropsAmp(s) ==
    IF s \in Html5Names THEN Html5(s)
    ELSE LET xs == { x \in 2..(Len(s) - 1) : SubSeq(s, 1, x) \in Html5Names } IN
         IF xs # {}
         THEN LET x == CHOOSE y \in xs : \A z \in xs : z <= y IN
              Html5(SubSeq(s, 1, x)) \o SubSeq(s, x + 1, Len(s))
         ELSE s

\* html._replace_charref, named branch: exact name, else the longest prefix
\* of at least two characters that is a name, else the text unchanged
ReplaceCharref(s) ==
    IF s \in Html5Names THEN Html5(s)
    ELSE LET xs == { x \in 2..(Len(s) - 1) : SubSeq(s, 1, x) \in Html5Names } IN
         IF xs # {}
         THEN LET x == CHOOSE y \in xs : \A z \in xs : z <= y IN
              Html5(SubSeq(s, 1, x)) \o SubSeq(s, x + 1, Len(s))
         ELSE <<"&">> \o s

\* _charref.sub(_replace_charref, s): left to right, non-overlapping
RECURSIVE CharrefSub(_)
CharrefSub(s) ==
    IF s = << >> THEN << >>
    ELSE IF Head(s) = "&"
         THEN LET m == CharrefMatch(Tail(s)) IN
              IF m = << >> THEN <<"&">> \o CharrefSub(Tail(s))
              ELSE ReplaceCharref(m) \o CharrefSub(SubSeq(s, Len(m) + 2, Len(s)))
         ELSE << Head(s) >> \o CharrefSub(Tail(s))

Unescape(s) ==
    IF "&" \notin Range(s) THEN s ELSE CharrefSub(s)

(***************************************************************************)
(* JSON values as json.load returns them, and Python's int() and str().    *)
(***************************************************************************)
JInt(n) == [t |-> "int", n |-> n]
JStr(s) == [t |-> "str", s |-> s]
JNull == [t |-> "null"]
JObj(o) == [t |-> "obj", o |-> o]

Digits == <<"0", "1", "2", "3", "4", "5", "6", "7", "8", "9">>
DigitVal(c) == (CHOOSE i \in 1..10 : Digits[i] = c) - 1
IsDigit(c) == \E i \in 1..10 : Digits[i] = c

RECURSIVE NatToStr(_)
NatToStr(n) ==
    IF n < 10 THEN << Digits[n + 1] >>
    ELSE NatToStr(n \div 10) \o << Digits[(n % 10) + 1] >>

\* str(n) of an int
IntToStr(n) == IF n < 0 THEN <<"-">> \o NatToStr(0 - n) ELSE NatToStr(n)

RECURSIVE DigitsToNat(_, _)
DigitsToNat(s, acc) ==
    IF s = << >> THEN acc ELSE DigitsToNat(Tail(s), 10 * acc + DigitVal(Head(s)))

IsDecimal(s) == s # << >> /\ \A i \in 1..Len(s) : IsDigit(s[i])

\* int(v): ints pass, decimal strings (optional sign) parse, the rest raises
PyInt(v) ==
    CASE v.t = "int" -> Ok(v.n)
      [] v.t = "str" ->
            IF IsDecimal(v.s) THEN Ok(DigitsToNat(v.s, 0))
            ELSE IF v.s # << >> /\ Head(v.s) = "-" /\ IsDecimal(Tail(v.s))
                 THEN Ok(0 - DigitsToNat(Tail(v.s), 0))
            ELSE Raise("ValueError", "invalid literal for int() with base 10")
      [] v.t = "null" ->
            Raise("TypeError", "int() argument must be a string, a bytes-like object or a real number, not 'NoneType'")
      [] v.t = "obj" ->
            Raise("TypeError", "int() argument must be a string, a bytes-like object or a real number, not 'dict'")

\* str(v) of a scalar: a string is itself, None is "None", an int its decimal
PyStr(v) ==
    CASE v.t = "str" -> v.s
      [] v.t = "int" -> IntToStr(v.n)
      [] v.t = "null" -> <<"N", "o", "n", "e">>

\* v[k]
Subscript(v, k) ==
    CASE v.t = "obj" -> IF k \in DOMAIN v.o THEN Ok(v.o[k]) ELSE Raise("KeyError", k)
      [] v.t = "str" -> Raise("TypeError", "string indices must be integers")
      [] v.t = "int" -> Raise("TypeError", "'int' object is not subscriptable")
      [] v.t = "null" -> Raise("TypeError", "'NoneType' object is not subscriptable")

\* v[a][b]
Subscript2(v, a, b) ==
    LET r == Subscript(v, a) IN IF r.ok THEN Subscript(r.val, b) ELSE r

(***************************************************************************)
(* Literals of the program.                                                *)
(***************************************************************************)
WazuhAlert == <<"W", "a", "z", "u", "h", " ", "A", "l", "e", "r", "t">>

\* timeout=60 of requests.post
PostTimeout == 60

(***************************************************************************)
(* get_severity_color                                                      *)
(***************************************************************************)
\* the comparisons written with > instead of >=
get_severity_color_strict(rule_level) ==
    IF rule_level > 10 THEN "attention"
    ELSE IF rule_level > 7 THEN "warning"
    ELSE IF rule_level > 4 THEN "good"
    ELSE "accent"

get_severity_color(rule_level) ==
    IF rule_level >= 10 THEN "attention"
    ELSE IF rule_level >= 7 THEN "warning"
    ELSE IF rule_level >= 4 THEN "good"
    ELSE "accent"

(***************************************************************************)
(* generate_adaptive_card: the document literal, values interpolated.      *)
(***************************************************************************)
\* the targetElements of the two Action.ToggleVisibility actions
ShowTargets ==
    << [elementId |-> "fullLogBlock", isVisible |-> TRUE],
       [elementId |-> "showToggle", isVisible |-> FALSE],
       [elementId |-> "hideToggle", isVisible |-> TRUE] >>

\* a hide action that forgets to bring the show toggle back
HideTargetsNoShow ==
    << [elementId |-> "fullLogBlock", isVisible |-> FALSE],
       [elementId |-> "hideToggle", isVisible |-> FALSE] >>

HideTargets ==
    << [elementId |-> "fullLogBlock", isVisible |-> FALSE],
       [elementId |-> "showToggle", isVisible |-> TRUE],
       [elementId |-> "hideToggle", isVisible |-> FALSE] >>

ToggleContainer(action) ==
    << [type |-> "ActionSet", actions |-> << action >>] >>

generate_adaptive_card(alert) ==
    LET severity_color == get_severity_color(alert.rule_level) IN
    [ schema |-> "http://adaptivecards.io/schemas/adaptive-card.json",
      type |-> "AdaptiveCard",
      version |-> "1.3",
      msteams |-> [width |-> "Full"],
      body |-> <<
        [ type |-> "Container",
          style |-> severity_color,
          bleed |-> TRUE,
          items |-> << [type |-> "TextBlock", text |-> alert.rule_description,
                        weight |-> "Bolder"] >> ],
        [ type |-> "RichTextBlock",
          inlines |-> <<
            [type |-> "TextRun", text |-> <<"A", "g", "e", "n", "t", ":", " ">>,
             weight |-> "Bolder"],
            [type |-> "TextRun", text |-> alert.agent_name \o <<" ">>],
            [type |-> "TextRun",
             text |-> <<"(", "I", "D", " ">> \o IntToStr(alert.agent_id) \o <<")">>,
             italic |-> TRUE] >> ],
        [ type |-> "RichTextBlock",
          inlines |-> <<
            [type |-> "TextRun", text |-> <<"R", "u", "l", "e", ":", " ">>,
             weight |-> "Bolder"],
            [type |-> "TextRun", text |-> IntToStr(alert.rule_id) \o <<" ">>],
            [type |-> "TextRun",
             text |-> <<"(", "L", "e", "v", "e", "l", " ">>
                       \o IntToStr(alert.rule_level) \o <<")">>,
             italic |-> TRUE] >> ],
        [ type |-> "Container",
          id |-> "showToggle",
          spacing |-> "Medium",
          separator |-> TRUE,
          \* the titles end with an arrow glyph in the source
          items |-> ToggleContainer(
            [type |-> "Action.ToggleVisibility", title |-> "Show Full Log",
             targetElements |-> ShowTargets]) ],
        [ type |-> "Container",
          id |-> "hideToggle",
          isVisible |-> FALSE,
          items |-> ToggleContainer(
            [type |-> "Action.ToggleVisibility", title |-> "Hide Full Log",
             targetElements |-> HideTargets]) ],
        [ type |-> "Container",
          id |-> "fullLogBlock",
          isVisible |-> FALSE,
          style |-> "emphasis",
          bleed |-> FALSE,
          spacing |-> "Small",
          items |-> << [type |-> "TextBlock", text |-> alert.full_log, wrap |-> TRUE,
                        maxLines |-> 0, fontType |-> "Monospace"] >> ] >>,
      fallbackText |-> WazuhAlert ]

(***************************************************************************)
(* The card as a client shows it: an element is visible unless it says     *)
(* isVisible false; activating an Action.ToggleVisibility sets each target *)
(* element's visibility as the action declares.                            *)
(***************************************************************************)
IdElements(card) ==
    { i \in 1..Len(card.body) : "id" \in DOMAIN card.body[i] }

ElementIds(card) == { card.body[i].id : i \in IdElements(card) }

InitialVisibility(card) ==
    [ e \in ElementIds(card) |->
        LET i == CHOOSE j \in IdElements(card) : card.body[j].id = e IN
        IF "isVisible" \in DOMAIN card.body[i] THEN card.body[i].isVisible ELSE TRUE ]

\* the toggle actions inside body element i
ToggleActions(card, i) ==
    IF "items" \notin DOMAIN card.body[i] THEN {}
    ELSE { a \in UNION { Range(it.actions) :
                           it \in { x \in Range(card.body[i].items) : x.type = "ActionSet" } } :
             a.type = "Action.ToggleVisibility" }

ApplyToggle(vis, action) ==
    [ e \in DOMAIN vis |->
        IF \E k \in 1..Len(action.targetElements) : action.targetElements[k].elementId = e
        THEN LET k == CHOOSE j \in 1..Len(action.targetElements) :
                          action.targetElements[j].elementId = e
             IN action.targetElements[k].isVisible
        ELSE vis[e] ]

(***************************************************************************)
(* get_alert_details: open, json.load, then the six fields in order; the   *)
(* first failure is the exception raised.                                  *)
(***************************************************************************)
\* a description taken with .get(..., "") before the fallback
DescriptionOrDefault(alert_body) ==
    LET r == Subscript(alert_body, "rule") IN
    IF ~r.ok THEN r
    ELSE IF r.val.t = "obj" /\ "description" \notin DOMAIN r.val.o THEN Ok(WazuhAlert)
    ELSE LET d == Subscript(r.val, "description") IN
         IF ~d.ok THEN d
         ELSE IF PyStr(d.val) = << >> THEN Ok(WazuhAlert) ELSE Ok(PyStr(d.val))

\* str(alert_body["rule"]["description"]) or "Wazuh Alert"
RuleDescription(alert_body) ==
    LET d == Subscript2(alert_body, "rule", "description") IN
    IF ~d.ok THEN d
    ELSE IF PyStr(d.val) = << >> THEN Ok(WazuhAlert) ELSE Ok(PyStr(d.val))

\* int(alert_body[a][b])
IntField(alert_body, a, b) ==
    LET r == Subscript2(alert_body, a, b) IN IF r.ok THEN PyInt(r.val) ELSE r

\* str(alert_body[a][b])
StrField(alert_body, a, b) ==
    LET r == Subscript2(alert_body, a, b) IN IF r.ok THEN Ok(PyStr(r.val)) ELSE r

ParseAlert(alert_body) ==
    LET rule_id == IntField(alert_body, "rule", "id")
        rule_level == IntField(alert_body, "rule", "level")
        rule_description == RuleDescription(alert_body)
        agent_id == IntField(alert_body, "agent", "id")
        agent_name == StrField(alert_body, "agent", "name")
        fl == Subscript(alert_body, "full_log")
    IN  IF ~rule_id.ok THEN rule_id
        ELSE IF ~rule_level.ok THEN rule_level
        ELSE IF ~rule_description.ok THEN rule_description
        ELSE IF ~agent_id.ok THEN agent_id
        ELSE IF ~agent_name.ok THEN agent_name
        ELSE IF ~fl.ok THEN fl
        ELSE Ok([ rule_id |-> rule_id.val,
                  rule_level |-> rule_level.val,
                  rule_description |-> rule_description.val,
                  agent_id |-> agent_id.val,
                  agent_name |-> agent_name.val,
                  full_log |-> PyStr(fl.val) ])

\* with open(path) as f: json.load(f)
LoadJson(file) ==
    CASE file.kind = "missing" -> Raise("FileNotFoundError", "No such file or directory")
      [] file.kind = "unreadable" -> Raise("PermissionError", "Permission denied")
      [] file.kind = "malformed" -> Raise("JSONDecodeError", "Expecting value")
      [] file.kind = "json" -> Ok(file.body)

\* json.dumps(adaptive_card): the text that serializes the document
Dumps(doc) == [json_text_of |-> doc]

(***************************************************************************)
(* Inputs: the argument vector, the files and the webhook's behaviour.     *)
(***************************************************************************)
Prog == <<"c", "u", "s", "t", "o", "m", "-", "t", "e", "a", "m", "s">>
PathA == <<"/", "a">>
PathB == <<"/", "b">>

\* a JSON object from a set of <<key, value>> pairs
Obj(pairs) ==
    JObj([ k \in { p[1] : p \in pairs } |-> (CHOOSE p \in pairs : p[1] = k)[2] ])

Record(id, level, description, agent_id, agent_name, full_log) ==
    Obj({ <<"rule", Obj({ <<"id", id>>, <<"level", level>>,
                          <<"description", description>> })>>,
          <<"agent", Obj({ <<"id", agent_id>>, <<"name", agent_name>> })>>,
          <<"full_log", full_log>> })

Srv1 == JStr(<<"s", "r", "v", "1">>)
Test == JStr(<<"T", "e", "s", "t">>)
LogX == JStr(<<"x">>)

BaseRecord == Record(JInt(100), JInt(12), Test, JInt(1), Srv1, LogX)

\* the record with one key of one of its objects removed
Without(rec, a, b) ==
    JObj([ k \in DOMAIN rec.o |->
            IF k = a
            THEN JObj([ j \in (DOMAIN rec.o[a].o) \ {b} |-> rec.o[a].o[j] ])
            ELSE rec.o[k] ])

WithoutTop(rec, a) == JObj([ k \in (DOMAIN rec.o) \ {a} |-> rec.o[k] ])

SmallLevels == { JInt(12), JInt(3), JStr(<<"7">>) }
Descriptions == { Test, JStr(<< >>), JNull, JInt(0) }

WellFormedRecords ==
    { Record(JInt(100), l, d, JInt(1), Srv1, LogX) : l \in SmallLevels, d \in Descriptions }

OtherRecords ==
    { Without(r, "rule", "description") :
        r \in { Record(JInt(100), l, Test, JInt(1), Srv1, LogX) : l \in SmallLevels } }
    \cup { Without(BaseRecord, "rule", "id"), Without(BaseRecord, "rule", "level"),
           Without(BaseRecord, "agent", "id"), Without(BaseRecord, "agent", "name"),
           WithoutTop(BaseRecord, "full_log"), WithoutTop(BaseRecord, "rule"),
           Record(JInt(100), JStr(<<"h", "i">>), Test, JInt(1), Srv1, LogX),
           Record(JInt(100), JInt(12), Test, JNull, Srv1, LogX),
           Record(JStr(<<"-", "5">>), JInt(12), Test, JStr(<<"4", "2">>), Srv1, LogX),
           JNull }

FilesA ==
    { [kind |-> "missing"], [kind |-> "unreadable"], [kind |-> "malformed"] }
    \cup { [kind |-> "json", body |-> r] : r \in WellFormedRecords \cup OtherRecords }

\* what is at the other path
FileB ==
    [kind |-> "json",
     body |-> Record(JInt(7), JInt(8), JStr(<<"A", "l", "t">>), JInt(2), Srv1, LogX)]

UrlParts == { <<"h">>, <<"&">>, <<"a", "m", "p">>, <<";">> }

RECURSIVE UrlsUpTo(_)
UrlsUpTo(n) ==
    IF n = 0 THEN { << >> }
    ELSE LET P == UrlsUpTo(n - 1) IN P \cup { p \o q : p \in P, q \in UrlParts }

SmallUrls ==
    { <<"h">>, <<"h", "&", "a", "m", "p", ";", "h">>,
      <<"h", "&", "a", "m", "p", ";", "a", "m", "p", ";", "h">> }

Slot2Values == { << >>, PathB }
ExtraArgs == { << >>, << <<"d", "e", "b", "u", "g">> >> }

Argvs(paths, urls) ==
    { <<Prog, p, s, u>> \o e : p \in paths, s \in Slot2Values, u \in urls, e \in ExtraArgs }

ShortArgvs == { <<Prog>>, <<Prog, PathA>>, <<Prog, PathA, << >> >> }

Servers ==
    { [kind |-> "response", status_code |-> 200, text |-> "accepted"],
      [kind |-> "response", status_code |-> 500, text |-> "internal error"],
      [kind |-> "ConnectionError"],
      [kind |-> "Timeout"] }

ServerOk == [kind |-> "response", status_code |-> 200, text |-> "accepted"]

Inputs ==
    { [argv |-> a, file |-> f, server |-> s] :
        a \in Argvs({PathA, PathB}, SmallUrls) \cup ShortArgvs, f \in FilesA, s \in Servers }
    \cup
    { [argv |-> <<Prog, PathA, << >>, <<"h">> >>,
       file |-> [kind |-> "json",
                 body |-> Record(JInt(100), JInt(l), Test, JInt(1), Srv1, LogX)],
       server |-> ServerOk] : l \in (0 - 1)..MaxLevel }
    \cup
    { [argv |-> <<Prog, PathA, << >>, u>>,
       file |-> [kind |-> "json", body |-> BaseRecord],
       server |-> ServerOk] : u \in UrlsUpTo(MaxUrlParts) }

\* the invocations that differ from args in the second slot or the extra
\* arguments only
Twins(args) ==
    IF Len(args) < 3 THEN {}
    ELSE IF Len(args) = 3 THEN { <<args[1], args[2], s>> : s \in Slot2Values } \ {args}
    ELSE { <<args[1], args[2], s, args[4]>> \o e : s \in Slot2Values, e \in ExtraArgs }
         \ {args}

(***************************************************************************)
(* State.                                                                  *)
(***************************************************************************)
VARIABLES
    argv,             \* sys.argv
    fs,               \* path -> file
    server,           \* how the webhook answers a POST
    pc,               \* where the process is
    alert_file_path,  \* handle_alert's locals
    webhook,
    alert,
    adaptive_card,
    payload,          \* send_message's locals
    response,
    exc,              \* the exception in flight
    exit_status,
    log,              \* entries this invocation appended to the log file
    posts,            \* HTTP POSTs this invocation issued
    calls,            \* functions handle_alert called, in order
    opened,           \* paths this invocation opened
    doc_visible,      \* the delivered card in the client: element id -> visible
    prev              \* the finished earlier invocation, if any

vars == << argv, fs, server, pc, alert_file_path, webhook, alert, adaptive_card,
           payload, response, exc, exit_status, log, posts, calls, opened,
           doc_visible, prev >>

LogEntry(level, text, args) == [level |-> level, text |-> text, args |-> args]

FileAt(path) == IF path \in DOMAIN fs THEN fs[path] ELSE [kind |-> "missing"]

Fresh ==
    /\ pc = "main"
    /\ alert_file_path = None
    /\ webhook = None
    /\ alert = None
    /\ adaptive_card = None
    /\ payload = None
    /\ response = None
    /\ exc = None
    /\ exit_status = None
    /\ log = << >>
    /\ posts = << >>
    /\ calls = << >>
    /\ opened = << >>
    /\ doc_visible = None

Init ==
    /\ \E in \in Inputs :
        /\ argv = in.argv
        /\ fs = (PathA :> in.file) @@ (PathB :> FileB)
        /\ server = in.server
    /\ prev = None
    /\ Fresh

(***************************************************************************)
(* __main__  (lines 185-191)                                               *)
(***************************************************************************)
\* logging.debug(sys.argv)
Main_LogArgv ==
    /\ pc = "main"
    /\ log' = Append(log, LogEntry("DEBUG", "argv", argv))
    /\ pc' = "handle_alert"
    /\ UNCHANGED << argv, fs, server, alert_file_path, webhook, alert, adaptive_card,
                    payload, response, exc, exit_status, posts, calls, opened,
                    doc_visible, prev >>

\* the webhook taken from the slot after the path
HandleAlertArgsWrongSlot(args) ==
    IF Len(args) < 4 THEN Raise("IndexError", "list index out of range")
    ELSE Ok([alert_file_path |-> args[2], webhook |-> args[3]])

\* alert_file_path = args[1]; webhook = args[3]  (Python indices from 0)
HandleAlertArgs(args) ==
    IF Len(args) < 4 THEN Raise("IndexError", "list index out of range")
    ELSE Ok([alert_file_path |-> args[2], webhook |-> args[4]])

HandleAlert_Args ==
    /\ pc = "handle_alert"
    /\ LET r == HandleAlertArgs(argv) IN
       IF r.ok
       THEN /\ alert_file_path' = Some(r.val.alert_file_path)
            /\ webhook' = Some(r.val.webhook)
            /\ pc' = "get_alert_details"
            /\ exc' = exc
       ELSE /\ exc' = Some(r.exc)
            /\ pc' = "except"
            /\ UNCHANGED << alert_file_path, webhook >>
    /\ UNCHANGED << argv, fs, server, alert, adaptive_card, payload, response,
                    exit_status, log, posts, calls, opened, doc_visible, prev >>

\* a reader that substitutes an empty alert when the file cannot be used
GetAlertDetailsLenient ==
    /\ pc = "get_alert_details"
    /\ calls' = Append(calls, "get_alert_details")
    /\ opened' = Append(opened, alert_file_path[1])
    /\ LET f == LoadJson(FileAt(alert_file_path[1]))
           r == IF f.ok THEN ParseAlert(f.val) ELSE f
       IN /\ log' = IF f.ok THEN Append(log, LogEntry("DEBUG", "alert_body", f.val)) ELSE log
          /\ alert' = IF r.ok THEN Some(r.val)
                      ELSE Some([rule_id |-> 0, rule_level |-> 0,
                                 rule_description |-> WazuhAlert, agent_id |-> 0,
                                 agent_name |-> << >>, full_log |-> << >>])
          /\ pc' = "generate_adaptive_card"
    /\ UNCHANGED << argv, fs, server, alert_file_path, webhook, adaptive_card, payload,
                    response, exc, exit_status, posts, doc_visible, prev >>

\* alert = get_alert_details(alert_file_path)
GetAlertDetails ==
    /\ pc = "get_alert_details"
    /\ calls' = Append(calls, "get_alert_details")
    /\ opened' = Append(opened, alert_file_path[1])
    /\ LET f == LoadJson(FileAt(alert_file_path[1]))
           r == IF f.ok THEN ParseAlert(f.val) ELSE f
       IN /\ log' = IF f.ok THEN Append(log, LogEntry("DEBUG", "alert_body", f.val)) ELSE log
          /\ IF r.ok
             THEN /\ alert' = Some(r.val)
                  /\ pc' = "generate_adaptive_card"
                  /\ exc' = exc
             ELSE /\ exc' = Some(r.exc)
                  /\ pc' = "except"
                  /\ alert' = alert
    /\ UNCHANGED << argv, fs, server, alert_file_path, webhook, adaptive_card, payload,
                    response, exit_status, posts, doc_visible, prev >>

\* adaptive_card = generate_adaptive_card(alert)
GenerateAdaptiveCard ==
    /\ pc = "generate_adaptive_card"
    /\ calls' = Append(calls, "generate_adaptive_card")
    /\ log' = Append(log, LogEntry("INFO", "Generating MS Teams Adaptive Card", << >>))
    /\ adaptive_card' = Some(generate_adaptive_card(alert[1]))
    /\ pc' = "send_message"
    /\ UNCHANGED << argv, fs, server, alert_file_path, webhook, alert, payload, response,
                    exc, exit_status, posts, opened, doc_visible, prev >>

(***************************************************************************)
(* send_message  (lines 158-174)                                           *)
(***************************************************************************)
\* the URL logged as it was passed in, before decoding
SendMessageSetupLogsRaw(card, url) ==
    LET decoded == Unescape(url)
        data == Dumps(card)
    IN [ webhook |-> decoded,
         payload |-> data,
         logged |-> << LogEntry("INFO", "Sending message to Power Automate: ", data),
                       LogEntry("INFO", "Using webhook URL: ", url) >> ]

\* lines 160-166: decode the URL, serialize, log both
SendMessageSetup(card, url) ==
    LET decoded == Unescape(url)
        data == Dumps(card)
    IN [ webhook |-> decoded,
         payload |-> data,
         logged |-> << LogEntry("INFO", "Sending message to Power Automate: ", data),
                       LogEntry("INFO", "Using webhook URL: ", decoded) >> ]

SendMessage_Prepare ==
    /\ pc = "send_message"
    /\ calls' = Append(calls, "send_message")
    /\ LET s == SendMessageSetup(adaptive_card[1], webhook[1]) IN
        /\ webhook' = Some(s.webhook)
        /\ payload' = Some(s.payload)
        /\ log' = log \o s.logged
    /\ pc' = "post"
    /\ UNCHANGED << argv, fs, server, alert_file_path, alert, adaptive_card, response,
                    exc, exit_status, posts, opened, doc_visible, prev >>

\* response.ok of requests: the status is below 400
ResponseOf(srv) ==
    [status_code |-> srv.status_code, text |-> srv.text, ok |-> srv.status_code < 400]

\* response = requests.post(url=webhook, headers=headers, data=payload, timeout=60)
SendMessage_Post ==
    /\ pc = "post"
    /\ posts' = Append(posts, [ url |-> webhook[1],
                                headers |-> [ContentType |-> "application/json"],
                                data |-> payload[1],
                                timeout |-> PostTimeout ])
    /\ IF server.kind = "response"
       THEN /\ response' = Some(ResponseOf(server))
            /\ pc' = "response"
            /\ exc' = exc
       ELSE /\ exc' = Some([type |-> server.kind, msg |-> "HTTPSConnectionPool"])
            /\ pc' = "except"
            /\ response' = response
    /\ UNCHANGED << argv, fs, server, alert_file_path, webhook, alert, adaptive_card,
                    payload, exit_status, log, calls, opened, doc_visible, prev >>

\* a send that tries again after a non-success status
SendMessage_ResponseRetry ==
    /\ pc = "response"
    /\ IF ~response[1].ok
       THEN /\ log' = Append(log, LogEntry("ERROR", "Failed to send message!", << >>))
            /\ pc' = IF Len(posts) < 2 THEN "post" ELSE "main_end"
       ELSE /\ log' = Append(log, LogEntry("INFO",
                                 "Successfully sent message to Power Automate", << >>))
            /\ pc' = "main_end"
    /\ UNCHANGED << argv, fs, server, alert_file_path, webhook, alert, adaptive_card,
                    payload, response, exc, exit_status, posts, calls, opened,
                    doc_visible, prev >>

\* a send that raises on a non-success status (raise_for_status)
SendMessage_ResponseRaises ==
    /\ pc = "response"
    /\ IF ~response[1].ok
       THEN /\ exc' = Some([type |-> "HTTPError", msg |-> "Server Error"])
            /\ pc' = "except"
            /\ log' = log
       ELSE /\ log' = Append(log, LogEntry("INFO",
                                 "Successfully sent message to Power Automate", << >>))
            /\ pc' = "main_end"
            /\ exc' = exc
    /\ UNCHANGED << argv, fs, server, alert_file_path, webhook, alert, adaptive_card,
                    payload, response, exit_status, posts, calls, opened,
                    doc_visible, prev >>

\* lines 170-174, then send_message and handle_alert return
SendMessage_Response ==
    /\ pc = "response"
    /\ IF ~response[1].ok
       THEN log' = log \o
                << LogEntry("ERROR", "Failed to send message!", << >>),
                   LogEntry("ERROR", "Response code: , response body: ",
                            << response[1].status_code, response[1].text >>) >>
       ELSE log' = Append(log, LogEntry("INFO",
                                 "Successfully sent message to Power Automate", << >>))
    /\ pc' = "main_end"
    /\ UNCHANGED << argv, fs, server, alert_file_path, webhook, alert, adaptive_card,
                    payload, response, exc, exit_status, posts, calls, opened,
                    doc_visible, prev >>

\* handle_alert returned: the script ends, the interpreter exits 0
Main_Exit ==
    /\ pc = "main_end"
    /\ exit_status' = Some(0)
    /\ pc' = "exited"
    /\ UNCHANGED << argv, fs, server, alert_file_path, webhook, alert, adaptive_card,
                    payload, response, exc, log, posts, calls, opened, doc_visible, prev >>

\* an except clause that logs and does not re-raise
Main_ExceptSwallows ==
    /\ pc = "except"
    /\ log' = Append(log, LogEntry("ERROR", exc[1].msg, << >>))
    /\ exit_status' = Some(0)
    /\ exc' = None
    /\ pc' = "exited"
    /\ UNCHANGED << argv, fs, server, alert_file_path, webhook, alert, adaptive_card,
                    payload, response, posts, calls, opened, doc_visible, prev >>

\* except Exception as e: logging.error(str(e)); raise
\* the exception leaves the script unhandled: traceback, exit status 1
Main_Except ==
    /\ pc = "except"
    /\ log' = Append(log, LogEntry("ERROR", exc[1].msg, << >>))
    /\ exit_status' = Some(1)
    /\ pc' = "exited"
    /\ UNCHANGED << argv, fs, server, alert_file_path, webhook, alert, adaptive_card,
                    payload, response, exc, posts, calls, opened, doc_visible, prev >>

(***************************************************************************)
(* The client that received the card (lines 75-128 are its document).      *)
(***************************************************************************)
DeliveredCard == posts[1].data.json_text_of

Client_Display ==
    /\ doc_visible = None
    /\ response # None
    /\ response[1].ok
    /\ doc_visible' = Some(InitialVisibility(DeliveredCard))
    /\ UNCHANGED << argv, fs, server, pc, alert_file_path, webhook, alert, adaptive_card,
                    payload, response, exc, exit_status, log, posts, calls, opened, prev >>

\* the user activates the toggle of a visible container
Client_Activate ==
    /\ doc_visible # None
    /\ \E i \in IdElements(DeliveredCard) :
         \E a \in ToggleActions(DeliveredCard, i) :
            /\ doc_visible[1][DeliveredCard.body[i].id]
            /\ doc_visible' = Some(ApplyToggle(doc_visible[1], a))
    /\ UNCHANGED << argv, fs, server, pc, alert_file_path, webhook, alert, adaptive_card,
                    payload, response, exc, exit_status, log, posts, calls, opened, prev >>

(***************************************************************************)
(* The upstream system invokes the script again for the same alert, with   *)
(* another second slot or other extra arguments; files and webhook are as  *)
(* they were.                                                              *)
(***************************************************************************)
Outcome ==
    [ opened |-> opened, alert |-> alert, adaptive_card |-> adaptive_card,
      posts |-> posts, exc |-> exc, exit_status |-> exit_status ]

Reinvoke ==
    /\ pc = "exited"
    /\ prev = None
    /\ \E a \in Twins(argv) :
        /\ argv' = a
        /\ prev' = Some([argv |-> argv, outcome |-> Outcome])
    /\ pc' = "main"
    /\ alert_file_path' = None
    /\ webhook' = None
    /\ alert' = None
    /\ adaptive_card' = None
    /\ payload' = None
    /\ response' = None
    /\ exc' = None
    /\ exit_status' = None
    /\ log' = << >>
    /\ posts' = << >>
    /\ calls' = << >>
    /\ opened' = << >>
    /\ doc_visible' = None
    /\ UNCHANGED << fs, server >>

Next ==
    \/ Main_LogArgv
    \/ HandleAlert_Args
    \/ GetAlertDetails
    \/ GenerateAdaptiveCard
    \/ SendMessage_Prepare
    \/ SendMessage_Post
    \/ SendMessage_Response
    \/ Main_Exit
    \/ Main_Except
    \/ Client_Display
    \/ Client_Activate
    \/ Reinvoke

Spec == Init /\ [][Next]_vars

(***************************************************************************)
(* Properties.                                                             *)
(***************************************************************************)
HasEntry(lg, level, text) ==
    \E i \in 1..Len(lg) : lg[i].level = level /\ lg[i].text = text

\* C1: the header container's style is the severity token of rule_level:
\* "attention" from 10 up, "warning" for 7..9, "good" for 4..6, "accent"
\* below 4; levels 0,3,4,6,7,9,10,15 give accent, accent, good, good,
\* warning, warning, attention, attention.
C1_SeverityToken ==
    adaptive_card # None =>
        LET l == alert[1].rule_level
            s == adaptive_card[1].body[1].style
        IN  /\ adaptive_card[1].body[1].type = "Container"
            /\ (l >= 10 => s = "attention")
            /\ (l >= 7 /\ l <= 9 => s = "warning")
            /\ (l >= 4 /\ l <= 6 => s = "good")
            /\ (l <= 3 => s = "accent")
            /\ (l \in {0, 3} => s = "accent")
            /\ (l \in {4, 6} => s = "good")
            /\ (l \in {7, 9} => s = "warning")
            /\ (l \in {10, 15} => s = "attention")

C1_Witness ==
    /\ adaptive_card # None
    /\ alert[1].rule_level = 10
    /\ adaptive_card[1].body[1].style = "attention"

\* the record get_alert_details read, once it has run on a parsed file
ReadBody == FileAt(opened[1]).body

\* a parsed record whose fields other than rule.description are all usable
OtherFieldsValid ==
    /\ opened # << >>
    /\ FileAt(opened[1]).kind = "json"
    /\ ReadBody.t = "obj"
    /\ IntField(ReadBody, "rule", "id").ok
    /\ IntField(ReadBody, "rule", "level").ok
    /\ IntField(ReadBody, "agent", "id").ok
    /\ StrField(ReadBody, "agent", "name").ok
    /\ Subscript(ReadBody, "full_log").ok

DescriptionAbsent == "description" \notin DOMAIN ReadBody.o["rule"].o
SourceDescription == ReadBody.o["rule"].o["description"]

\* C2 as claimed: for a valid record (description a string, or absent) the
\* read returns an Alert whose rule_description is "Wazuh Alert" exactly
\* when the source description is empty or absent, and the source otherwise.
C2_FallbackIffEmptyOrAbsent ==
    (OtherFieldsValid /\ (DescriptionAbsent \/ SourceDescription.t = "str")) =>
        /\ alert # None
        /\ IF DescriptionAbsent \/ SourceDescription.s = << >>
           THEN alert[1].rule_description = WazuhAlert
           ELSE alert[1].rule_description = SourceDescription.s

\* C2 amended: when rule.description is present the read returns an Alert
\* whose rule_description is "Wazuh Alert" if the description is the empty
\* string and str(description) otherwise (a non-empty string unchanged,
\* null as "None"); when it is absent there is no fallback, the read
\* raises KeyError('description') and returns no Alert.
C2_FallbackOnEmptyOnly ==
    OtherFieldsValid =>
        IF DescriptionAbsent
        THEN /\ alert = None
             /\ exc = Some([type |-> "KeyError", msg |-> "description"])
        ELSE /\ alert # None
             /\ (SourceDescription.t = "str" /\ SourceDescription.s = << >>
                    => alert[1].rule_description = WazuhAlert)
             /\ (SourceDescription.t = "str" /\ SourceDescription.s # << >>
                    => alert[1].rule_description = SourceDescription.s)
             /\ (SourceDescription.t = "null"
                    => alert[1].rule_description = <<"N", "o", "n", "e">>)
             /\ (SourceDescription.t = "int"
                    => alert[1].rule_description = IntToStr(SourceDescription.n))

C2_Witness ==
    /\ OtherFieldsValid
    /\ ~DescriptionAbsent
    /\ SourceDescription = JStr(<< >>)
    /\ alert # None
    /\ alert[1].rule_description = WazuhAlert

OnlyShow == [showToggle |-> TRUE, hideToggle |-> FALSE, fullLogBlock |-> FALSE]
LogAndHide == [showToggle |-> FALSE, hideToggle |-> TRUE, fullLogBlock |-> TRUE]

\* C3: in every document state exactly one of fullLogBlock and showToggle
\* is visible; the card is first shown with only showToggle visible, and an
\* activation from there leaves only fullLogBlock and hideToggle visible.
C3_ExactlyOneVisible ==
    [][ /\ (doc_visible' # None =>
              doc_visible'[1]["fullLogBlock"] # doc_visible'[1]["showToggle"])
        /\ (doc_visible = None /\ doc_visible' # None => doc_visible'[1] = OnlyShow)
        /\ (doc_visible # None /\ doc_visible' # None /\ doc_visible' # doc_visible
              /\ doc_visible[1] = OnlyShow => doc_visible'[1] = LogAndHide)
        /\ (doc_visible # None /\ doc_visible' # None /\ doc_visible' # doc_visible
              /\ doc_visible[1] = LogAndHide => doc_visible'[1] = OnlyShow)
      ]_vars

C3_Witness ==
    /\ doc_visible # None
    /\ doc_visible[1] = LogAndHide

\* C4: after a non-success HTTP status the error with the status code and
\* the response body is logged, nothing is raised, no other POST is issued
\* and the process exits with status 0.
C4_HttpErrorNonFatal ==
    (response # None /\ ~response[1].ok) =>
        /\ exc = None
        /\ pc # "except"
        /\ Len(posts) = 1
        /\ (pc \in {"main_end", "exited"} =>
              /\ HasEntry(log, "ERROR", "Failed to send message!")
              /\ \E i \in 1..Len(log) :
                    /\ log[i].level = "ERROR"
                    /\ log[i].text = "Response code: , response body: "
                    /\ log[i].args = << response[1].status_code, response[1].text >>)
        /\ (pc = "exited" => exit_status = Some(0))

C4_Witness ==
    /\ pc = "exited"
    /\ response # None
    /\ response[1].status_code = 500
    /\ exit_status = Some(0)

\* C5: a step that throws leads to the except clause; the failure message
\* is the last entry logged, at error level, and the process ends with a
\* non-zero status; an invocation that did not get a response never exits 0.
C5_FailureLoggedAndPropagated ==
    /\ (exc # None => pc \in {"except", "exited"})
    /\ (pc = "exited" /\ response = None =>
          /\ exc # None
          /\ exit_status = Some(1)
          /\ log # << >>
          /\ log[Len(log)].level = "ERROR"
          /\ log[Len(log)].text = exc[1].msg)
    /\ (pc = "exited" /\ exc # None => exit_status # Some(0))
    /\ (exit_status = Some(0) => exc = None /\ response # None)

C5_Witness ==
    /\ pc = "exited"
    /\ exc = Some([type |-> "KeyError", msg |-> "id"])
    /\ IntField(ReadBody, "rule", "id").ok
    /\ exit_status = Some(1)

\* send_message has decoded the URL
Decoded == "send_message" \in Range(calls)

IsPrefix(n, s) == Len(n) <= Len(s) /\ SubSeq(s, 1, Len(n)) = n

\* an '&' immediately followed by an entity name
HasCharref(w) ==
    \E i \in 1..Len(w) :
        /\ w[i] = "&"
        /\ \E n \in Html5Names : IsPrefix(n, SubSeq(w, i + 1, Len(w)))

\* C6 as claimed: decoding the decoded webhook URL again yields the same
\* URL.
C6_DecodeIdempotent ==
    Decoded => Unescape(webhook[1]) = webhook[1]

\* C6 amended: decoding the decoded webhook URL again yields the same URL
\* whenever the decoded URL holds no character reference (no '&' directly
\* followed by an entity name).
C6_DecodeIdempotentWithoutCharref ==
    (Decoded /\ ~HasCharref(webhook[1])) => Unescape(webhook[1]) = webhook[1]

C6_Witness ==
    /\ Decoded
    /\ webhook[1] # argv[4]
    /\ "&" \in Range(webhook[1])
    /\ ~HasCharref(webhook[1])
    /\ Unescape(webhook[1]) = webhook[1]

Pipeline == <<"get_alert_details", "generate_adaptive_card", "send_message">>

\* C7: the steps run at most once each in the order read, render, send;
\* exactly one POST is issued once reading and rendering succeeded, and
\* never a second one, whatever the outcome of the first.
C7_PipelineOnceNoRetry ==
    /\ IsPrefix(calls, Pipeline)
    /\ Len(posts) <= 1
    /\ (posts # << >> => calls = Pipeline)
    /\ (pc = "exited" /\ adaptive_card # None => Len(posts) = 1)

C7_Witness ==
    /\ pc = "exited"
    /\ Len(posts) = 1
    /\ exc # None
    /\ exc[1].type = "Timeout"

\* the payload entry and then the URL entry of request r are in lg
LoggedFor(lg, r) ==
    \E i, j \in 1..Len(lg) :
        /\ i < j
        /\ lg[i].level = "INFO"
        /\ lg[i].text = "Sending message to Power Automate: "
        /\ lg[i].args = r.data
        /\ lg[j].level = "INFO"
        /\ lg[j].text = "Using webhook URL: "
        /\ lg[j].args = r.url

\* C8: when the POST is issued the log already holds the informational
\* entries of the payload and of the decoded URL, the POST goes to that URL
\* with that payload, and the entries stay in the log whatever the POST's
\* outcome.
C8_LoggedBeforePost ==
    [][ /\ (Len(posts') > Len(posts) =>
              /\ LoggedFor(log, posts'[Len(posts')])
              /\ posts'[Len(posts')].url = Unescape(argv[4])
              /\ posts'[Len(posts')].data = Dumps(adaptive_card[1]))
        /\ (posts' # << >> => LoggedFor(log', posts'[1]))
      ]_vars

C8_Witness ==
    /\ pc = "exited"
    /\ exc # None
    /\ exc[1].type = "ConnectionError"
    /\ posts # << >>
    /\ posts[1].url # argv[4]
    /\ LoggedFor(log, posts[1])

\* C9: the path is taken from the first argument slot and the URL from the
\* third; an invocation that differs from an earlier one in the second slot
\* or the extra arguments only reads the same alert, renders the same card,
\* posts to the same URL and exits with the same status.
C9_OnlySlotsOneAndThree ==
    /\ (alert_file_path # None => alert_file_path[1] = argv[2])
    /\ (opened # << >> => opened = << argv[2] >>)
    /\ (posts # << >> => posts[1].url = Unescape(argv[4]))
    /\ (pc = "exited" /\ prev # None =>
          /\ prev[1].argv[2] = argv[2]
          /\ (Len(argv) >= 4 => prev[1].argv[4] = argv[4])
          /\ prev[1].argv # argv
          /\ prev[1].outcome = Outcome)

C9_Witness ==
    /\ pc = "exited"
    /\ prev # None
    /\ posts # << >>
    /\ argv[3] # prev[1].argv[3]
    /\ Len(argv) # Len(prev[1].argv)
    /\ prev[1].outcome = Outcome

\* get_alert_details fails on the file at the path given
ReadFails ==
    LET f == LoadJson(FileAt(opened[1])) IN
    IF f.ok THEN ~ParseAlert(f.val).ok ELSE TRUE

\* C10: when get_alert_details fails nothing is rendered and nothing is
\* posted; a POST is preceded by a successful read and a completed render.
C10_NoPostAfterFailedRead ==
    /\ (opened # << >> /\ ReadFails =>
          /\ alert = None
          /\ adaptive_card = None
          /\ posts = << >>
          /\ calls = <<"get_alert_details">>
          /\ pc \in {"except", "exited"})
    /\ (posts # << >> =>
          /\ ~ReadFails
          /\ alert = Some(ParseAlert(ReadBody).val)
          /\ adaptive_card # None
          /\ posts[1].data = Dumps(adaptive_card[1]))

C10_Witness ==
    /\ pc = "exited"
    /\ opened # << >>
    /\ FileAt(opened[1]).kind = "malformed"
    /\ posts = << >>
    /\ exit_status = Some(1)

====
